---- MODULE Spec2Model ----
(***************************************************************************)
(* State-machine model of the GitHub monitor plugin:                       *)
(*   src/main.py                          GitHubMonitorPlugin              *)
(*   src/services/github_service.py       GitHubService                    *)
(*   src/services/notification_service.py NotificationService              *)
(*                                                                         *)
(* Python strings are sequences of one-character strings, so that          *)
(* str.split, f-string formatting and int() are computed, not assumed.     *)
(* The asyncio event loop runs one coroutine at a time and switches only   *)
(* at an await: every action below is the code between two awaits.         *)
(***************************************************************************)
EXTENDS Integers, Sequences, FiniteSets, TLC

----------------------------------------------------------------------------
(* Bounds of the model *)

\* cycles of _check_repositories started in one behaviour (loop + manual)
MaxCycles == 2
\* pushes / default-branch changes made on the remote in one behaviour
MaxRemoteEvents == 1
\* length of the recipient list handed to the notifier
MaxTargets == 3
\* calls of _start_monitoring counted in one behaviour
MaxStartCalls == 2

----------------------------------------------------------------------------
(* Python values *)

\* Python's None: a value no string (sequence of characters) is equal to
None == <<"<None>">>

\* `not x` for a value that is None or a str
Falsy(x) == x = None \/ x = <<>>

\* f"{x}" for a value that is None or a str
Format(x) == IF x = None THEN <<"N", "o", "n", "e">> ELSE x

\* index of the first "/" of s, 0 when it has none
RECURSIVE FirstSlash(_, _)
FirstSlash(s, i) ==
    IF i > Len(s) THEN 0
    ELSE IF s[i] = "/" THEN i
    ELSE FirstSlash(s, i + 1)

\* s.split("/", 1): one part when s has no "/", else the text before and
\* after its first "/"
Split(s) ==
    LET i == FirstSlash(s, 1) IN
    IF i = 0 THEN <<s>>
    ELSE <<SubSeq(s, 1, i - 1), SubSeq(s, i + 1, Len(s))>>

\* dict.get(k) on a dict kept as a function over its present keys
DictGet(d, k, default) == IF k \in DOMAIN d THEN d[k] ELSE default

\* d[k] = v
DictSet(d, k, v) == [x \in (DOMAIN d) \cup {k} |-> IF x = k THEN v ELSE d[x]]

EmptyDict == [x \in {} |-> None]

----------------------------------------------------------------------------
(* Names used by the configurations and by the remote *)

Dev == <<"d", "e", "v">>
Main == <<"m", "a", "i", "n">>
OwnerO == <<"o">>
RepoA == <<"a">>

Branches == {Dev, Main}

\* commit shas are digit strings read as numbers: 11, 12 and 21, two of which
\* share everything but the last digit

\* sha[:7], the display prefix of a sha: here all but the last digit
ShortSha(sha) == sha \div 10

\* a commit snapshot as get_latest_commit returns it, and the absent one
Commit(sha) == [sha |-> sha]
NoCommit == [sha |-> 0]

\* the JSON of GET /repos/{owner}/{repo}; absent is get_repository_info's None
Info(db) == [present |-> TRUE, default_branch |-> db]
NoInfo == [present |-> FALSE, default_branch |-> None]

\* entries of config["repositories"]
StrRef(s) == [type |-> "str", value |-> s, owner |-> None, repo |-> None, branch |-> None]
DictRef(o, r, b) == [type |-> "dict", value |-> None, owner |-> o, repo |-> r, branch |-> b]
OtherRef == [type |-> "other", value |-> None, owner |-> None, repo |-> None, branch |-> None]

\* the configured lists the model runs
Configs ==
    { <<>>,
      <<StrRef(OwnerO \o <<"/">> \o RepoA), DictRef(OwnerO, RepoA, Main)>>,
      <<StrRef(OwnerO \o RepoA), DictRef(OwnerO, RepoA, Main)>>,
      <<StrRef(<<"/">> \o RepoA), DictRef(None, RepoA, None), OtherRef,
        DictRef(OwnerO, RepoA, Main)>> }

\* a list of three well-formed refs, for the runs of one cycle at a time
ConfigsSeq ==
    Configs \cup
    { <<DictRef(OwnerO, RepoA, Dev), StrRef(OwnerO \o <<"/">> \o RepoA),
        DictRef(OwnerO, RepoA, Main)>> }

\* recipient identifiers of config["notification_targets"]
TargetPool == { <<"1">>, <<"2">>, <<"x">> }

RECURSIVE SeqsUpTo(_, _)
SeqsUpTo(S, n) ==
    IF n = 0 THEN { <<>> }
    ELSE LET shorter == SeqsUpTo(S, n - 1) IN
         shorter \cup { Append(s, x) : s \in { t \in shorter : Len(t) = n - 1 }, x \in S }

\* the processes that run _check_repositories: the task of _monitor_loop
\* and one in-flight monitor_command handler
Loop == "loop"
Manual == "manual"
Procs == {Loop, Manual}

\* failure kinds of a remote call
HttpFailures == {"NotFound", "Unauthorized", "RateLimited"}
FailureKinds == HttpFailures \cup {"Network"}

----------------------------------------------------------------------------
(* State *)

VARIABLES
    repositories,          \* config["repositories"]
    notification_targets,  \* config["notification_targets"]
    bot_instance,          \* self.bot_instance
    monitoring_started,    \* self.monitoring_started
    tasks,                 \* number of _monitor_loop tasks created so far
    remote_tip,            \* the remote: branch -> sha of its tip commit
    remote_default,        \* the remote: default branch of the repository
    remote_events,         \* pushes and default-branch changes made so far
    file,                  \* data/commits.json
    pc,                    \* per process: where its coroutine stands
    idx,                   \* per process: position of the for loop in repositories
    commit_data,           \* per process: the dict loaded at the start of the cycle
    owner, repo, branch,   \* per process: locals of _check_repositories
    glc_branch,            \* per process: `branch` inside get_latest_commit
    new_commit, repo_info, actual_branch, repo_key, old_commit,
    exc,                   \* per process: the exception that ended its last cycle
    cycles,                \* cycles started so far
    cur_notified,          \* per process: refs notified in its current cycle
    prev_notified,         \* refs notified by the cycle that ended last
    start_calls,           \* calls of _start_monitoring made so far
    n_pc, n_targets, n_pos, n_attempted, n_format_ok,
                           \* one call of send_commit_notification, step by step
    faults,                \* whether a remote call or a save can still fail
    s_pc, s_idx, s_data, s_owner, s_repo, s_blocks, s_result
                           \* one call of status_command, step by step

cfgVars == <<repositories, notification_targets>>
startVars == <<bot_instance, monitoring_started, tasks>>
remoteVars == <<remote_tip, remote_default, remote_events>>
localVars == <<owner, repo, branch, glc_branch, new_commit, repo_info,
               actual_branch, repo_key, old_commit>>
procVars == <<pc, idx, commit_data, exc, cycles>>
ghostVars == <<cur_notified, prev_notified, start_calls>>
notifierVars == <<n_pc, n_targets, n_pos, n_attempted, n_format_ok>>
statusVars == <<s_pc, s_idx, s_data, s_owner, s_repo, s_blocks, s_result>>
otherVars == <<faults, statusVars>>

vars == <<cfgVars, startVars, remoteVars, file, localVars, procVars, ghostVars,
          notifierVars, otherVars>>

----------------------------------------------------------------------------
(* State Store: data/commits.json *)

FileAbsent == [state |-> "absent", data |-> EmptyDict]
FileOf(d) == [state |-> "ok", data |-> d]
FileCorrupt == [state |-> "corrupt", data |-> EmptyDict]

\* _load_commit_data: {} when the file does not exist or cannot be parsed
load_commit_data(f) == IF f.state = "ok" THEN f.data ELSE EmptyDict

SaveOutcomes == {"ok", "open_fails", "write_fails"}

\* a save that is put off to a later moment: the file stays as it is
save_commit_data_deferred(f, d, outcome) == f

\* _save_commit_data: open(..., 'w') truncates the file and json.dump writes
\* it; any exception is logged and swallowed.  A failing open leaves the
\* file as it was, a failing write leaves a truncated document.
save_commit_data(f, d, outcome) ==
    IF outcome = "ok" THEN FileOf(d)
    ELSE IF outcome = "open_fails" THEN f
    ELSE FileCorrupt

----------------------------------------------------------------------------
(* Repository Client *)

\* what a remote call can end in; a 200 answer of GET /repos/{owner}/{repo}
\* carries the repository's default_branch
InfoOutcomes == {"ok"} \cup FailureKinds
CommitOutcomes == {"ok"} \cup FailureKinds

\* the outcomes left once the remote and the disk have stopped failing
Possible(outcomes) == IF faults THEN outcomes ELSE {"ok"}

\* get_repository_info: the JSON on 200; None on an HTTP error status, where
\* raise_for_status raises with `response` bound; on a transport failure
\* client.get raises before `response` is bound, and the handler's own
\* f-string reads response.status_code: UnboundLocalError leaves the function.
get_repository_info(outcome) ==
    IF outcome = "ok" THEN [raised |-> "none", ret |-> Info(remote_default)]
    ELSE IF outcome \in HttpFailures THEN [raised |-> "none", ret |-> NoInfo]
    ELSE [raised |-> "UnboundLocalError", ret |-> NoInfo]

\* the commit request returning a snapshot whatever the answer was
fetch_commit_unchecked(b, outcome) ==
    IF Format(b) \in DOMAIN remote_tip
    THEN Commit(remote_tip[Format(b)])
    ELSE Commit(12)

\* the request of get_latest_commit, GET .../commits/{branch}: the snapshot
\* of the branch's tip, or None on any httpx.HTTPError (status or transport)
fetch_commit(b, outcome) ==
    IF outcome = "ok" /\ Format(b) \in DOMAIN remote_tip
    THEN Commit(remote_tip[Format(b)])
    ELSE NoCommit

----------------------------------------------------------------------------
(* Change Detector: helpers *)

\* f"{owner}/{repo}/{actual_branch}"
RepoKey(o, r, b) == Format(o) \o <<"/">> \o Format(r) \o <<"/">> \o Format(b)

\* the comparison made on the display prefix of the shas
ChangedShort(old, new) == old = NoCommit \/ ShortSha(old.sha) # ShortSha(new.sha)

\* `not old_commit or old_commit.get("sha") != new_commit["sha"]`
Changed(old, new) == old = NoCommit \/ old.sha # new.sha

\* repo_info.get("default_branch", "main") if repo_info else "main"
DefaultBranchOf(ri) ==
    IF ri.present /\ ri.default_branch # None THEN ri.default_branch ELSE Main

InCycle(p) ==
    pc[p] \in {"for", "glc_info", "glc_get", "info", "detect", "info2", "notify", "update"}
CycleOver(p) == pc[p] \in {"sleep", "backoff", "done", "failed"}

SetLocals(p, o, r, b, gb, nc, ri, ab, rk, oc) ==
    /\ owner' = [owner EXCEPT ![p] = o]
    /\ repo' = [repo EXCEPT ![p] = r]
    /\ branch' = [branch EXCEPT ![p] = b]
    /\ glc_branch' = [glc_branch EXCEPT ![p] = gb]
    /\ new_commit' = [new_commit EXCEPT ![p] = nc]
    /\ repo_info' = [repo_info EXCEPT ![p] = ri]
    /\ actual_branch' = [actual_branch EXCEPT ![p] = ab]
    /\ repo_key' = [repo_key EXCEPT ![p] = rk]
    /\ old_commit' = [old_commit EXCEPT ![p] = oc]

\* the locals of one iteration are dead once the iteration is left
ClearLocals(p) ==
    SetLocals(p, None, None, None, None, NoCommit, NoInfo, None, None, NoCommit)

\* `continue`, or the end of the loop body: on to the next configured ref
Continue(p) ==
    /\ pc' = [pc EXCEPT ![p] = "for"]
    /\ idx' = [idx EXCEPT ![p] = @ + 1]
    /\ ClearLocals(p)
    /\ UNCHANGED <<exc, prev_notified>>

\* _check_repositories returns: _monitor_loop sleeps the interval
\* (main.py:83), monitor_command reports success (main.py:147)
Return(p) ==
    /\ pc' = [pc EXCEPT ![p] = IF p = Loop THEN "sleep" ELSE "done"]
    /\ prev_notified' = cur_notified[p]
    /\ UNCHANGED <<idx, exc>>

\* _monitor_loop without its try/except: an exception ends the task
RaiseUncaught(p, e) ==
    /\ pc' = [pc EXCEPT ![p] = IF p = Loop THEN "stopped" ELSE "failed"]
    /\ exc' = [exc EXCEPT ![p] = e]
    /\ prev_notified' = cur_notified[p]
    /\ UNCHANGED idx

\* an exception leaves _check_repositories: _monitor_loop logs it and sleeps
\* 60 s (main.py:84-86), monitor_command reports the failure (main.py:148-150)
Raise(p, e) ==
    /\ pc' = [pc EXCEPT ![p] = IF p = Loop THEN "backoff" ELSE "failed"]
    /\ exc' = [exc EXCEPT ![p] = e]
    /\ prev_notified' = cur_notified[p]
    /\ UNCHANGED idx

----------------------------------------------------------------------------
(* Change Detector: _check_repositories, one action per await *)

\* main.py:88-95.  The loop task calls it when created and after each sleep,
\* monitor_command whenever the command arrives.
BeginCycle(p) ==
    /\ \/ p = Loop /\ pc[p] \in {"created", "sleep", "backoff"}
       \/ p = Manual /\ pc[p] \in {"idle", "done", "failed"}
    /\ exc' = [exc EXCEPT ![p] = "none"]
    /\ cur_notified' = [cur_notified EXCEPT ![p] = {}]
    /\ IF repositories = <<>>
       THEN /\ pc' = [pc EXCEPT ![p] = IF p = Loop THEN "sleep" ELSE "done"]
            /\ idx' = [idx EXCEPT ![p] = 1]
            /\ prev_notified' = {}
            /\ UNCHANGED commit_data
       ELSE /\ pc' = [pc EXCEPT ![p] = "for"]
            /\ idx' = [idx EXCEPT ![p] = 1]
            /\ commit_data' = [commit_data EXCEPT ![p] = load_commit_data(file)]
            /\ UNCHANGED prev_notified
    /\ ClearLocals(p)
    /\ UNCHANGED <<cfgVars, startVars, remoteVars, file, start_calls,
                   notifierVars, otherVars>>

\* a cycle, counted among the cycles of the behaviour
StartCycle(p) ==
    /\ cycles < MaxCycles
    /\ cycles' = cycles + 1
    /\ BeginCycle(p)

\* a cycle of a loop that runs for ever: not counted
RestartCycle(p) ==
    /\ BeginCycle(p)
    /\ UNCHANGED cycles

\* main.py:108-112: a ref without owner or repo is skipped, any other one
\* goes to get_latest_commit, which asks for the metadata first when the ref
\* names no branch (github_service.py:24-25)
Proceed(p, o, r, b) ==
    IF Falsy(o) \/ Falsy(r)
    THEN Continue(p)
    ELSE /\ pc' = [pc EXCEPT ![p] = IF Falsy(b) THEN "glc_info" ELSE "glc_get"]
         /\ SetLocals(p, o, r, b, b, NoCommit, NoInfo, None, None, NoCommit)
         /\ UNCHANGED <<idx, exc, prev_notified>>

\* main.py:97-109: the head of the for loop and the parsing of one entry
ForHead(p) ==
    /\ pc[p] = "for"
    /\ IF idx[p] > Len(repositories)
       THEN Return(p) /\ UNCHANGED localVars
       ELSE LET e == repositories[idx[p]] IN
            IF e.type = "str"
            THEN LET parts == Split(e.value) IN
                 IF Len(parts) # 2
                 THEN Raise(p, "ValueError") /\ UNCHANGED localVars
                 ELSE Proceed(p, parts[1], parts[2], None)
            ELSE IF e.type = "dict"
            THEN Proceed(p, e.owner, e.repo, e.branch)
            ELSE Continue(p)
    /\ UNCHANGED <<cfgVars, startVars, remoteVars, file, commit_data, cycles,
                   cur_notified, start_calls, notifierVars, otherVars>>

\* github_service.py:24-33: the metadata request of get_latest_commit.  An
\* exception of get_repository_info is caught at github_service.py:60 and
\* get_latest_commit returns None; a result without default branch is logged
\* and the function goes on with `branch` still None.
GlcInfo(p) ==
    /\ pc[p] = "glc_info"
    /\ \E outcome \in Possible(InfoOutcomes) :
         LET r == get_repository_info(outcome) IN
         /\ IF r.raised # "none"
            THEN Continue(p)
            ELSE /\ glc_branch' = [glc_branch EXCEPT ![p] =
                        IF r.ret.present /\ r.ret.default_branch # None
                        THEN r.ret.default_branch ELSE @]
                 /\ pc' = [pc EXCEPT ![p] = "glc_get"]
                 /\ UNCHANGED <<idx, exc, prev_notified, owner, repo, branch,
                                new_commit, repo_info, actual_branch, repo_key,
                                old_commit>>
    /\ UNCHANGED <<cfgVars, startVars, remoteVars, file, commit_data, cycles,
                   cur_notified, start_calls, notifierVars, otherVars>>

\* github_service.py:33-62 and main.py:112-114: the commit request for
\* f"{branch}"; None makes _check_repositories skip the ref
GlcGet(p) ==
    /\ pc[p] = "glc_get"
    /\ \E outcome \in Possible(CommitOutcomes) :
         LET c == fetch_commit(glc_branch[p], outcome) IN
         IF c = NoCommit
         THEN Continue(p)
         ELSE /\ new_commit' = [new_commit EXCEPT ![p] = c]
              /\ pc' = [pc EXCEPT ![p] = "info"]
              /\ UNCHANGED <<idx, exc, prev_notified, owner, repo, branch,
                             glc_branch, repo_info, actual_branch, repo_key,
                             old_commit>>
    /\ UNCHANGED <<cfgVars, startVars, remoteVars, file, commit_data, cycles,
                   cur_notified, start_calls, notifierVars, otherVars>>

\* main.py:117-122: the metadata request of _check_repositories, the key
\* and the lookup of the old snapshot in the cycle's dict
InfoStep(p) ==
    /\ pc[p] = "info"
    /\ \E outcome \in Possible(InfoOutcomes) :
         LET r == get_repository_info(outcome)
             ab == IF ~Falsy(branch[p]) THEN branch[p] ELSE DefaultBranchOf(r.ret)
             key == RepoKey(owner[p], repo[p], ab)
         IN
         IF r.raised # "none"
         THEN Raise(p, r.raised) /\ UNCHANGED localVars
         ELSE /\ pc' = [pc EXCEPT ![p] = "detect"]
              /\ repo_info' = [repo_info EXCEPT ![p] = r.ret]
              /\ actual_branch' = [actual_branch EXCEPT ![p] = ab]
              /\ repo_key' = [repo_key EXCEPT ![p] = key]
              /\ old_commit' = [old_commit EXCEPT ![p] =
                                  DictGet(commit_data[p], key, NoCommit)]
              /\ UNCHANGED <<idx, exc, prev_notified, owner, repo, branch,
                             glc_branch, new_commit>>
    /\ UNCHANGED <<cfgVars, startVars, remoteVars, file, commit_data, cycles,
                   cur_notified, start_calls, notifierVars, otherVars>>

\* main.py:133: the notifier is called only with metadata and a recipient
AfterDetect(ri) ==
    IF ri.present /\ notification_targets # <<>> THEN "notify" ELSE "update"

\* main.py:125-133: the comparison; on a change the iteration goes on to the
\* second metadata request (when the first gave None), to the notifier or
\* to the update
Detect(p) ==
    /\ pc[p] = "detect"
    /\ IF Changed(old_commit[p], new_commit[p])
       THEN /\ pc' = [pc EXCEPT ![p] =
                   IF ~repo_info[p].present THEN "info2" ELSE AfterDetect(repo_info[p])]
            /\ UNCHANGED <<idx, exc, prev_notified, localVars>>
       ELSE Continue(p)
    /\ UNCHANGED <<cfgVars, startVars, remoteVars, file, commit_data, cycles,
                   cur_notified, start_calls, notifierVars, otherVars>>

\* main.py:129-133: the second metadata request, made when the first gave None
Info2Step(p) ==
    /\ pc[p] = "info2"
    /\ \E outcome \in Possible(InfoOutcomes) :
         LET r == get_repository_info(outcome) IN
         /\ IF r.raised # "none"
            THEN Raise(p, r.raised) /\ UNCHANGED localVars
            ELSE /\ pc' = [pc EXCEPT ![p] = AfterDetect(r.ret)]
                 /\ repo_info' = [repo_info EXCEPT ![p] = r.ret]
                 /\ UNCHANGED <<idx, exc, prev_notified, owner, repo, branch,
                                glc_branch, new_commit, actual_branch, repo_key,
                                old_commit>>
    /\ UNCHANGED <<cfgVars, startVars, remoteVars, file, commit_data, cycles,
                   cur_notified, start_calls, notifierVars, otherVars>>

\* main.py:134-136: send_commit_notification is called and returns (it never
\* raises and changes nothing of the plugin: see the Notifier below).  With
\* `record` the step is also written into the history of notified refs.
Notify(p, record) ==
    /\ pc[p] = "notify"
    /\ pc' = [pc EXCEPT ![p] = "update"]
    /\ cur_notified' = [cur_notified EXCEPT ![p] = IF record THEN @ \cup {idx[p]} ELSE @]
    /\ UNCHANGED <<cfgVars, startVars, remoteVars, file, localVars, idx,
                   commit_data, exc, cycles, prev_notified,
                   start_calls, notifierVars, otherVars>>

\* main.py:139-140: the snapshot goes into the cycle's dict and the whole
\* dict is saved; the iteration ends
Update(p, outcome) ==
    /\ pc[p] = "update"
    /\ outcome \in Possible(SaveOutcomes)
    /\ LET d == DictSet(commit_data[p], repo_key[p], new_commit[p]) IN
       /\ commit_data' = [commit_data EXCEPT ![p] = d]
       /\ file' = save_commit_data(file, d, outcome)
    /\ Continue(p)
    /\ UNCHANGED <<cfgVars, startVars, remoteVars, cycles, cur_notified,
                   start_calls, notifierVars, otherVars>>

----------------------------------------------------------------------------
(* The remote repository *)

RemoteChanged ==
    /\ remote_events' = remote_events + 1
    /\ UNCHANGED <<cfgVars, startVars, file, localVars, procVars, ghostVars,
                   notifierVars, otherVars>>

\* the commit a push puts on top of the commit sha
NextSha(sha) == IF sha = 11 THEN 12 ELSE IF sha = 12 THEN 21 ELSE 11

\* a push moves the tip of a branch to a new commit
Push(b) ==
    /\ remote_events < MaxRemoteEvents
    /\ remote_tip' = [remote_tip EXCEPT ![b] = NextSha(@)]
    /\ UNCHANGED remote_default
    /\ RemoteChanged

\* the repository's default branch is set to another branch
SetDefaultBranch(b) ==
    /\ remote_events < MaxRemoteEvents
    /\ b # remote_default
    /\ remote_default' = b
    /\ UNCHANGED remote_tip
    /\ RemoteChanged

\* from now on every remote call and every save succeeds
FaultsEnd ==
    /\ faults
    /\ faults' = FALSE
    /\ UNCHANGED <<cfgVars, startVars, remoteVars, file, localVars, procVars,
                   ghostVars, notifierVars, statusVars>>

----------------------------------------------------------------------------
(* Scheduler start *)

TheBot == <<"bot">>

\* the message events the host hands to _capture_bot_instance
Events ==
    [platform : {"aiocqhttp", "other"}, import_ok : BOOLEAN, is_aiocqhttp : BOOLEAN]

\* _start_monitoring without its guard
start_monitoring_unguarded ==
    /\ tasks' = tasks + 1
    /\ monitoring_started' = TRUE
    /\ pc' = [pc EXCEPT ![Loop] = IF @ = "unstarted" THEN "created" ELSE @]

\* main.py:70-76: the task is created only while monitoring_started is False
start_monitoring ==
    IF ~monitoring_started
    THEN /\ tasks' = tasks + 1
         /\ monitoring_started' = TRUE
         /\ pc' = [pc EXCEPT ![Loop] = IF @ = "unstarted" THEN "created" ELSE @]
    ELSE UNCHANGED <<tasks, monitoring_started, pc>>

CountStartCall ==
    start_calls' = IF start_calls < MaxStartCalls THEN start_calls + 1 ELSE start_calls

\* main.py:29-43
CaptureBotInstance(event) ==
    /\ IF /\ bot_instance = None
          /\ event.platform = "aiocqhttp"
          /\ event.import_ok
          /\ event.is_aiocqhttp
       THEN /\ bot_instance' = TheBot
            /\ start_monitoring
            /\ CountStartCall
       ELSE UNCHANGED <<bot_instance, tasks, monitoring_started, pc, start_calls>>
    /\ UNCHANGED <<cfgVars, remoteVars, file, localVars, idx, commit_data, exc,
                   cycles, cur_notified, prev_notified,
                   notifierVars, otherVars>>

\* a call of _start_monitoring from anywhere else
StartMonitoringCall ==
    /\ start_calls < MaxStartCalls
    /\ start_monitoring
    /\ CountStartCall
    /\ UNCHANGED <<cfgVars, bot_instance, remoteVars, file, localVars, idx,
                   commit_data, exc, cycles, cur_notified,
                   prev_notified, notifierVars, otherVars>>

----------------------------------------------------------------------------
(* Notifier: one call of send_commit_notification *)

Digits == {"0", "1", "2", "3", "4", "5", "6", "7", "8", "9"}

\* int(target) succeeds on a non-empty string of digits and raises ValueError
\* on any other string
IntRaises(t) == t = <<>> \/ \E i \in 1..Len(t) : t[i] \notin Digits

DeliveryOutcomes == {"ok", "transport_error"}

\* notification_service.py:40-67: "not sent" without a captured bot, else the
\* result of call_action; every exception is caught inside
send_private_message(bot, outcome) ==
    IF bot = None THEN "no_bot"
    ELSE IF outcome = "ok" THEN "sent"
    ELSE "failed"

\* notification_service.py:12-13: the message is formatted inside the try;
\* a failure of _format_commit_message is logged and the call returns
NotifierCall ==
    /\ n_pc = "idle"
    /\ n_pc' = IF n_format_ok THEN "loop" ELSE "returned"
    /\ n_pos' = 1
    /\ UNCHANGED <<n_targets, n_attempted, n_format_ok>>
    /\ UNCHANGED <<cfgVars, startVars, remoteVars, file, localVars, procVars,
                   ghostVars, otherVars>>

\* notification_service.py:15-19: one iteration of the loop over the
\* targets.  int(target) is evaluated inside the outer try and outside the
\* try of _send_private_message: its ValueError ends the loop.
NotifierSend ==
    /\ n_pc = "loop"
    /\ IF n_pos > Len(n_targets)
       THEN /\ n_pc' = "returned"
            /\ UNCHANGED <<n_pos, n_attempted>>
       ELSE IF IntRaises(n_targets[n_pos])
       THEN /\ n_pc' = "returned"
            /\ UNCHANGED <<n_pos, n_attempted>>
       ELSE \E outcome \in DeliveryOutcomes :
            /\ n_attempted' =
                 n_attempted @@ (n_pos :> send_private_message(bot_instance, outcome))
            /\ n_pos' = n_pos + 1
            /\ UNCHANGED n_pc
    /\ UNCHANGED <<n_targets, n_format_ok>>
    /\ UNCHANGED <<cfgVars, startVars, remoteVars, file, localVars, procVars,
                   ghostVars, otherVars>>

----------------------------------------------------------------------------
(* Status: one call of status_command *)

\* main.py:179-191: the block of one ref, the stored sha[:7] or "no data yet"
StatusBlock(o, r, b) ==
    LET key == RepoKey(o, r, b)
        commit_info == DictGet(s_data, key, NoCommit)
    IN [key |-> key,
        has_data |-> commit_info # NoCommit,
        sha |-> ShortSha(commit_info.sha)]

\* the reply of status_command: the listing (main.py:194) or the error
\* message of its except clause (main.py:196-198)
StatusReply(result) ==
    /\ s_pc' = "replied"
    /\ s_result' = result
    /\ UNCHANGED <<s_idx, s_data, s_owner, s_repo, s_blocks>>

\* the block of the current ref is added to the message; on to the next ref
StatusRender(o, r, b) ==
    /\ s_blocks' = Append(s_blocks, StatusBlock(o, r, b))
    /\ s_idx' = s_idx + 1
    /\ s_pc' = "for"
    /\ s_owner' = None
    /\ s_repo' = None
    /\ UNCHANGED <<s_data, s_result>>

\* main.py:155-159
StatusStart ==
    /\ s_pc = "idle"
    /\ s_pc' = "for"
    /\ s_data' = load_commit_data(file)
    /\ s_idx' = 1
    /\ s_blocks' = <<>>
    /\ UNCHANGED <<s_owner, s_repo, s_result>>
    /\ UNCHANGED <<cfgVars, startVars, remoteVars, file, localVars, procVars,
                   ghostVars, notifierVars, faults>>

\* main.py:161-177: the head of the for loop and the parsing of one entry;
\* a string entry and a dict entry without branch ask for the metadata
StatusForHead ==
    /\ s_pc = "for"
    /\ IF s_idx > Len(repositories)
       THEN StatusReply("listing")
       ELSE LET e == repositories[s_idx] IN
            IF e.type = "str"
            THEN LET parts == Split(e.value) IN
                 IF Len(parts) # 2
                 THEN StatusReply("error")
                 ELSE /\ s_owner' = parts[1]
                      /\ s_repo' = parts[2]
                      /\ s_pc' = "info"
                      /\ UNCHANGED <<s_idx, s_data, s_blocks, s_result>>
            ELSE IF e.type = "dict"
            THEN IF Falsy(e.branch)
                 THEN /\ s_owner' = e.owner
                      /\ s_repo' = e.repo
                      /\ s_pc' = "info"
                      /\ UNCHANGED <<s_idx, s_data, s_blocks, s_result>>
                 ELSE StatusRender(e.owner, e.repo, e.branch)
            ELSE /\ s_idx' = s_idx + 1
                 /\ UNCHANGED <<s_pc, s_data, s_owner, s_repo, s_blocks, s_result>>
    /\ UNCHANGED <<cfgVars, startVars, remoteVars, file, localVars, procVars,
                   ghostVars, notifierVars, faults>>

\* main.py:165-167 and 174-175: the metadata request and the branch it gives
StatusInfo ==
    /\ s_pc = "info"
    /\ \E outcome \in Possible(InfoOutcomes) :
         LET r == get_repository_info(outcome) IN
         IF r.raised # "none"
         THEN StatusReply("error")
         ELSE StatusRender(s_owner, s_repo, DefaultBranchOf(r.ret))
    /\ UNCHANGED <<cfgVars, startVars, remoteVars, file, localVars, procVars,
                   ghostVars, notifierVars, faults>>

----------------------------------------------------------------------------
(* Specifications *)

TargetConfigs == { <<>>, << <<"1">> >> }

\* the fields set by __init__, the remote and every coroutine not yet running
InitControl ==
    /\ bot_instance = None
    /\ monitoring_started = FALSE
    /\ tasks = 0
    /\ remote_tip = (Dev :> 11) @@ (Main :> 21)
    /\ remote_default = Dev
    /\ remote_events = 0
    /\ pc = (Loop :> "unstarted") @@ (Manual :> "idle")
    /\ idx = [p \in Procs |-> 1]
    /\ commit_data = [p \in Procs |-> EmptyDict]
    /\ owner = [p \in Procs |-> None]
    /\ repo = [p \in Procs |-> None]
    /\ branch = [p \in Procs |-> None]
    /\ glc_branch = [p \in Procs |-> None]
    /\ new_commit = [p \in Procs |-> NoCommit]
    /\ repo_info = [p \in Procs |-> NoInfo]
    /\ actual_branch = [p \in Procs |-> None]
    /\ repo_key = [p \in Procs |-> None]
    /\ old_commit = [p \in Procs |-> NoCommit]
    /\ exc = [p \in Procs |-> "none"]
    /\ cycles = 0
    /\ cur_notified = [p \in Procs |-> {}]
    /\ prev_notified = {}
    /\ start_calls = 0

\* a fresh installation: data/commits.json does not exist yet
InitPlugin ==
    /\ file = FileAbsent
    /\ InitControl

InitStatus ==
    /\ s_pc = "idle"
    /\ s_idx = 1
    /\ s_data = EmptyDict
    /\ s_owner = None
    /\ s_repo = None
    /\ s_blocks = <<>>
    /\ s_result = "none"

InitNotifier ==
    /\ n_pc = "idle"
    /\ n_pos = 1
    /\ n_attempted = <<>>

\* the plugin after __init__, for every configuration of the model
Init ==
    /\ repositories \in Configs
    /\ notification_targets \in TargetConfigs
    /\ InitPlugin
    /\ InitNotifier
    /\ n_targets = <<>>
    /\ n_format_ok = TRUE
    /\ InitStatus
    /\ faults = TRUE

Remote ==
    \/ \E b \in Branches : Push(b)
    \/ \E b \in Branches : SetDefaultBranch(b)

Next ==
    \/ \E event \in Events : CaptureBotInstance(event)
    \/ Remote
    \/ \E p \in Procs : StartCycle(p)
    \/ \E p \in Procs : ForHead(p)
    \/ \E p \in Procs : GlcInfo(p)
    \/ \E p \in Procs : GlcGet(p)
    \/ \E p \in Procs : InfoStep(p)
    \/ \E p \in Procs : Detect(p)
    \/ \E p \in Procs : Info2Step(p)
    \/ \E p \in Procs : Notify(p, FALSE)
    \/ \E p \in Procs, outcome \in SaveOutcomes : Update(p, outcome)

Spec == Init /\ [][Next]_vars

\* cycles one at a time, every save succeeding
NoCycleRunning == \A q \in Procs : ~InCycle(q)

NextSeq ==
    \/ \E event \in Events : CaptureBotInstance(event)
    \/ Remote
    \/ \E p \in Procs : NoCycleRunning /\ StartCycle(p)
    \/ \E p \in Procs : ForHead(p)
    \/ \E p \in Procs : GlcInfo(p)
    \/ \E p \in Procs : GlcGet(p)
    \/ \E p \in Procs : InfoStep(p)
    \/ \E p \in Procs : Detect(p)
    \/ \E p \in Procs : Info2Step(p)
    \/ \E p \in Procs : Notify(p, TRUE)
    \/ \E p \in Procs : Update(p, "ok")

InitSeq ==
    /\ repositories \in ConfigsSeq
    /\ notification_targets \in TargetConfigs
    /\ InitPlugin
    /\ InitNotifier
    /\ n_targets = <<>>
    /\ n_format_ok = TRUE
    /\ InitStatus
    /\ faults = TRUE

SpecSeq == InitSeq /\ [][NextSeq]_vars

\* the host's events around one call of send_commit_notification, for every
\* recipient list: message events, calls of _start_monitoring, deliveries
InitHost ==
    /\ n_targets \in SeqsUpTo(TargetPool, MaxTargets)
    /\ n_format_ok \in BOOLEAN
    /\ repositories = <<>>
    /\ notification_targets = n_targets
    /\ InitPlugin
    /\ InitNotifier
    /\ InitStatus
    /\ faults = TRUE

NextHost ==
    \/ \E event \in Events : CaptureBotInstance(event)
    \/ StartMonitoringCall
    \/ NotifierCall
    \/ NotifierSend

SpecHost == InitHost /\ [][NextHost]_vars

\* cycles one at a time, a save succeeding or failing
NextSave ==
    \/ \E event \in Events : CaptureBotInstance(event)
    \/ Remote
    \/ \E p \in Procs : NoCycleRunning /\ StartCycle(p)
    \/ \E p \in Procs : ForHead(p)
    \/ \E p \in Procs : GlcInfo(p)
    \/ \E p \in Procs : GlcGet(p)
    \/ \E p \in Procs : InfoStep(p)
    \/ \E p \in Procs : Detect(p)
    \/ \E p \in Procs : Info2Step(p)
    \/ \E p \in Procs : Notify(p, FALSE)
    \/ \E p \in Procs, outcome \in SaveOutcomes : Update(p, outcome)

SpecSave == InitSeq /\ [][NextSave]_vars

\* the loop task alone, running for ever: its steps are taken whenever they
\* stay possible (a sleep ends, a request answers or times out), the remote
\* changes finitely often and the failures end
LoopStep ==
    \/ RestartCycle(Loop)
    \/ ForHead(Loop)
    \/ GlcInfo(Loop)
    \/ GlcGet(Loop)
    \/ InfoStep(Loop)
    \/ Detect(Loop)
    \/ Info2Step(Loop)
    \/ Notify(Loop, FALSE)
    \/ \E outcome \in SaveOutcomes : Update(Loop, outcome)

NextLive ==
    \/ \E event \in Events : CaptureBotInstance(event)
    \/ Remote
    \/ FaultsEnd
    \/ LoopStep

SpecLive ==
    /\ Init
    /\ [][NextLive]_vars
    /\ WF_vars(LoopStep)
    /\ WF_vars(FaultsEnd)

\* the persisted documents a status read can find
StoredFiles ==
    { FileAbsent, FileCorrupt,
      FileOf(RepoKey(OwnerO, RepoA, Dev) :> Commit(11)),
      FileOf(RepoKey(OwnerO, RepoA, Main) :> Commit(21)),
      FileOf((RepoKey(OwnerO, RepoA, Dev) :> Commit(11))
               @@ (RepoKey(OwnerO, RepoA, Main) :> Commit(21))) }

\* one call of status_command, for every configuration and persisted
\* document, while the remote changes
InitStatusRead ==
    /\ repositories \in Configs
    /\ notification_targets = <<>>
    /\ file \in StoredFiles
    /\ InitControl
    /\ InitNotifier
    /\ n_targets = <<>>
    /\ n_format_ok = TRUE
    /\ InitStatus
    /\ faults = TRUE

NextStatus ==
    \/ StatusStart
    \/ StatusForHead
    \/ StatusInfo
    \/ Remote

SpecStatus == InitStatusRead /\ [][NextStatus]_vars

----------------------------------------------------------------------------
(* Properties *)

\* send_commit_notification has been called for the ref the process is at
Notified(p) ==
    pc[p] = "update" /\ repo_info[p].present /\ notification_targets # <<>>

\* the key of the current ref has been computed (main.py:120)
KeyComputed(p) == pc[p] \in {"detect", "info2", "notify", "update"}

\* C1: in a cycle, for a well-formed ref whose latest-commit fetch succeeded,
\* with the repository metadata available and a recipient configured,
\* send_commit_notification is invoked if and only if the cycle's dict holds
\* no snapshot under the ref's key or holds one whose full sha differs from
\* the fetched one.  The decision is taken when the comparison is made with
\* the metadata at hand, or when the second metadata request brings it.
C1_NotifyIffChanged ==
    [][\A p \in Procs :
         LET decided == \/ pc[p] = "detect" /\ pc'[p] # "detect" /\ repo_info[p].present
                        \/ pc[p] = "info2" /\ pc'[p] # "info2" /\ repo_info'[p].present
             stored == DictGet(commit_data[p], repo_key[p], NoCommit)
         IN
         (decided /\ notification_targets # <<>>)
            => /\ old_commit[p] = stored
               /\ new_commit[p] # NoCommit
               /\ (pc'[p] = "notify")
                     <=> (stored = NoCommit \/ stored.sha # new_commit[p].sha)]_vars

\* C1 witness: the notifier is about to be called for a ref whose stored
\* snapshot has another sha than the fetched commit
C1_Witness ==
    \E p \in Procs :
        /\ pc[p] = "notify"
        /\ old_commit[p] # NoCommit
        /\ old_commit[p].sha # new_commit[p].sha
        /\ repo_key[p] \in DOMAIN commit_data[p]

\* C2: each change of a tracked tip produces at most one notification, across
\* any interleaving of the loop's cycles and manual cycles.  In particular,
\* while the remote has not changed at all, no state is reached in which the
\* two cycles have both called send_commit_notification for the same key and
\* the same new sha.
C2_AtMostOneNotificationPerChange ==
    remote_events = 0 =>
        \A p, q \in Procs :
            (p # q /\ Notified(p) /\ Notified(q))
               => ~(repo_key[p] = repo_key[q] /\ new_commit[p].sha = new_commit[q].sha)

\* C3: when two cycles run one after the other, every save succeeding and the
\* remote unchanged, the second cycle notifies no ref the first one notified,
\* whatever the metadata requests of either cycle give.
C3_SecondCycleSilent ==
    remote_events = 0 =>
        \A p \in Procs :
            (pc[p] = "update" /\ idx[p] \in cur_notified[p]) => idx[p] \notin prev_notified

\* C4: a failing remote fetch for one ref never aborts the cycle: the refs
\* after it are still checked, so a cycle that is over (and was not stopped
\* by the parsing of an entry) has gone through the whole list.
C4_FetchFailureIsolated ==
    \A p \in Procs :
        (CycleOver(p) /\ exc[p] # "ValueError") => idx[p] > Len(repositories)

\* a string entry holds no "/", or an entry lacks its owner or its name
MalformedRef(e) ==
    \/ e.type = "str" /\ \A i \in 1..Len(e.value) : e.value[i] # "/"
    \/ e.type = "str" /\ (e.value[1] = "/" \/ e.value[Len(e.value)] = "/")
    \/ e.type = "dict" /\ (e.owner \in {None, <<>>} \/ e.repo \in {None, <<>>})

\* C5: a malformed configured ref is skipped without raising, and every ref
\* after it is still processed: a cycle that has reached a malformed ref and
\* is over was not ended by the parsing, and (unless a fetch ended it) has
\* gone through the whole list.
C5_MalformedRefSkipped ==
    \A p \in Procs : \A i \in 1..Len(repositories) :
        (CycleOver(p) /\ MalformedRef(repositories[i]) /\ idx[p] >= i)
           => /\ exc[p] # "ValueError"
              /\ (exc[p] = "none" => idx[p] > Len(repositories))

\* C6: get_repository_info and get_latest_commit never raise to their
\* caller: no cycle is ended by an exception coming out of the client.
C6_ClientNeverRaises ==
    \A p \in Procs : exc[p] # "UnboundLocalError"

\* C7: get_latest_commit, called without a branch, issues no commit request
\* for a placeholder branch when the metadata gave no default branch: when
\* the commit request is about to be sent, `branch` is a branch name.
C7_NoRequestForPlaceholder ==
    \A p \in Procs : pc[p] = "glc_get" => glc_branch[p] # None

\* C8: the key of a ref with an explicit branch names that branch; the key of
\* a ref without branch names the default branch a metadata request made for
\* the ref in this cycle returned, and "main" only when none returned one.
C8_KeyBranchResolution ==
    \A p \in Procs :
        KeyComputed(p) =>
            LET seen == ({glc_branch[p]} \ {None})
                          \cup (IF repo_info[p].present
                                THEN {repo_info[p].default_branch} \ {None}
                                ELSE {})
            IN /\ repo_key[p] = owner[p] \o <<"/">> \o repo[p] \o <<"/">> \o actual_branch[p]
               /\ IF branch[p] \notin {None, <<>>} THEN actual_branch[p] = branch[p]
                  ELSE IF seen # {} THEN actual_branch[p] \in seen
                  ELSE actual_branch[p] = Main

\* C9: when send_commit_notification has returned (the message having been
\* formatted), delivery was attempted to every recipient but those whose own
\* identifier cannot be used, whatever failed for the other recipients.
C9_RecipientsIndependent ==
    (n_pc = "returned" /\ n_format_ok) =>
        \A i \in 1..Len(n_targets) :
            (n_targets[i] # <<>> /\ \A j \in 1..Len(n_targets[i]) : n_targets[i][j] \in Digits)
               => i \in DOMAIN n_attempted

\* C10: over any sequence of message events and calls of _start_monitoring,
\* at most one _monitor_loop task is created.
C10_AtMostOneLoopTask == tasks <= 1

\* C10 witness: _start_monitoring has been called twice, once by a captured
\* message event, and one task exists
C10_Witness ==
    /\ tasks = 1
    /\ start_calls >= 2
    /\ bot_instance = TheBot

\* the positions of a coroutine inside _check_repositories
CycleStates ==
    {"for", "glc_info", "glc_get", "info", "detect", "info2", "notify", "update"}

\* C11: the loop task never stops because of a failing cycle.  A cycle that
\* returns is followed by the interval sleep, a cycle that raises by the 60 s
\* backoff sleep; from either sleep the only way on is the next cycle, which
\* is ready to start; a cycle never starts from inside a cycle, and the task
\* is never in a stopped position.
C11_LoopSurvivesCycles ==
    [][LET a == pc[Loop]
           b == pc'[Loop]
       IN
       /\ b \in {"unstarted", "created", "sleep", "backoff"} \cup CycleStates
       /\ (a \in CycleStates /\ b \notin CycleStates)
             => \/ exc'[Loop] = "none" /\ b = "sleep"
                \/ exc'[Loop] # "none" /\ b = "backoff"
       /\ (a \in CycleStates \ {"for"} /\ b = "for") => idx'[Loop] = idx[Loop] + 1
       /\ (a \in {"sleep", "backoff"} /\ b # a) => b \in {"for", "sleep"}
       /\ (a \in {"sleep", "backoff"} /\ cycles < MaxCycles) => ENABLED StartCycle(Loop)
      ]_vars

\* C11 witness: a cycle of the loop was ended by an exception of the client,
\* the task is in its backoff sleep and its next cycle can start
C11_Witness ==
    /\ pc[Loop] = "backoff"
    /\ exc[Loop] = "UnboundLocalError"
    /\ ENABLED StartCycle(Loop)

\* C12: a key once present in the persisted document is never removed from
\* it: every step from a readable document to a readable document keeps all
\* the keys of the first, whatever cycles are running.
C12_EntriesNeverDeleted ==
    [][(file.state = "ok" /\ file'.state = "ok")
          => DOMAIN file.data \subseteq DOMAIN file'.data]_vars

\* C13: when get_latest_commit gives no snapshot for a ref, the iteration
\* ends there: the cycle is at the next configured ref, nothing was put in
\* its dict, the persisted document is as it was and the notifier was not
\* called.  get_latest_commit gives a snapshot only as the tip of the
\* requested branch, and nothing is persisted while a ref is being fetched.
C13_FailedFetchLeavesState ==
    [][\A p \in Procs :
         /\ (pc[p] \in {"glc_info", "glc_get"} /\ pc'[p] # pc[p])
               => /\ file' = file
                  /\ commit_data'[p] = commit_data[p]
                  /\ cur_notified'[p] = cur_notified[p]
                  /\ \/ /\ pc'[p] = "for"
                        /\ idx'[p] = idx[p] + 1
                        /\ new_commit'[p] = NoCommit
                     \/ /\ pc[p] = "glc_info"
                        /\ pc'[p] = "glc_get"
                        /\ new_commit'[p] = NoCommit
                     \/ /\ pc[p] = "glc_get"
                        /\ pc'[p] = "info"
                        /\ glc_branch[p] \in DOMAIN remote_tip
                        /\ new_commit'[p] = Commit(remote_tip[glc_branch[p]])]_vars

\* C13 witness: the first ref is well formed, the cycle has left it without
\* any entry in its dict (a detected change would have put one) and without
\* an exception, and is fetching the second ref
C13_Witness ==
    \E p \in Procs :
        /\ pc[p] = "glc_get"
        /\ idx[p] = 2
        /\ repositories[1].type = "str"
        /\ Len(Split(repositories[1].value)) = 2
        /\ ~Falsy(Split(repositories[1].value)[1])
        /\ commit_data[p] = EmptyDict
        /\ file = FileAbsent
        /\ exc[p] = "none"

\* C14: a load made while another cycle is running never reads a partially
\* written document: the cycle that starts (and loads, main.py:94) while
\* another one is under way finds the document as a save left it complete.
C14_LoadNeverSeesPartialDocument ==
    [][\A p \in Procs :
         (/\ pc[p] \notin CycleStates
          /\ pc'[p] = "for"
          /\ \E q \in Procs \ {p} : InCycle(q))
            => file.state # "corrupt"]_vars

\* C15: status_command never answers with an error: its reply is a listing
\* with one block for every configured ref, a block showing stored data
\* exactly when the persisted document holds a snapshot under its key.
C15_StatusNeverFails ==
    s_pc = "replied" =>
        /\ s_result = "listing"
        /\ Len(s_blocks) =
             Cardinality({i \in 1..Len(repositories) :
                            repositories[i].type \in {"str", "dict"}})
        /\ \A i \in 1..Len(s_blocks) :
             s_blocks[i].has_data <=> s_blocks[i].key \in DOMAIN load_commit_data(file)

\* C16: in a cycle that runs alone and whose saves succeed, between two refs
\* the persisted document is the cycle's dict, so it holds the snapshot of
\* every ref of this cycle for which a change was detected; the update of a
\* ref puts its snapshot under its key into the persisted document at once
\* and keeps every other entry of the document.
C16_ImmediateWriteBack ==
    /\ [](\A p \in Procs :
            pc[p] = "for" => load_commit_data(file) = commit_data[p])
    /\ [][\A p \in Procs :
            (pc[p] = "update" /\ pc'[p] # "update")
               => /\ file'.state = "ok"
                  /\ repo_key[p] \in DOMAIN file'.data
                  /\ file'.data[repo_key[p]] = new_commit[p]
                  /\ \A k \in DOMAIN file.data :
                       /\ k \in DOMAIN file'.data
                       /\ k # repo_key[p] => file'.data[k] = file.data[k]]_vars

\* C16 witness: the first cycle has finished its second ref and the persisted
\* document already holds two snapshots
C16_Witness ==
    \E p \in Procs :
        /\ pc[p] = "for"
        /\ idx[p] = 3
        /\ cycles = 1
        /\ Cardinality(DOMAIN file.data) = 2

\* C17: once a change is detected for a ref, the iteration reaches the
\* update whatever becomes of the notification: from the comparison that
\* found the change, from the second metadata request and from the notifier
\* the only way on leads towards the update, and the update writes the new
\* snapshot under the key into the cycle's dict.
C17_StateWrittenOnChange ==
    [][\A p \in Procs :
         LET detected == \/ pc[p] = "detect" /\ Changed(old_commit[p], new_commit[p])
                         \/ pc[p] \in {"info2", "notify"}
         IN /\ (detected /\ pc'[p] # pc[p]) => pc'[p] \in {"info2", "notify", "update"}
            /\ (pc[p] = "update" /\ pc'[p] # "update")
                  => /\ repo_key[p] \in DOMAIN commit_data'[p]
                     /\ commit_data'[p][repo_key[p]] = new_commit[p]]_vars

\* the snapshot the persisted document f holds under key k
Persisted(f, k) == DictGet(load_commit_data(f), k, NoCommit)

\* C18: an update whose save failed stays out of the persisted document for
\* the rest of its cycle.  In a cycle that runs alone, a snapshot the cycle's
\* dict holds under a key while the persisted document does not (its save
\* failed) is not in the persisted document after any step either, but for
\* the update the cycle is making for that same key.
C18_FailedSaveStaysLost ==
    [][\A p \in Procs : \A k \in DOMAIN commit_data[p] :
         (/\ InCycle(p)
          /\ Persisted(file, k) # commit_data[p][k]
          /\ ~(pc[p] = "update" /\ k = repo_key[p]))
            => Persisted(file', k) # commit_data[p][k]]_vars

\* C19: the branch named by the key of a ref is the branch whose tip was
\* fetched for it: once the key is computed, its branch is the one
\* get_latest_commit requested the commit of.
C19_KeyNamesFetchedBranch ==
    \A p \in Procs :
        KeyComputed(p) =>
            /\ repo_key[p] = RepoKey(owner[p], repo[p], glc_branch[p])
            /\ new_commit[p] # NoCommit

\* a configured entry that names an owner and a repository
WellFormedRef(e) ==
    \/ e.type = "str" /\ Len(Split(e.value)) = 2
                      /\ ~Falsy(Split(e.value)[1]) /\ ~Falsy(Split(e.value)[2])
    \/ e.type = "dict" /\ ~Falsy(e.owner) /\ ~Falsy(e.repo)

\* the branch a well-formed entry tracks on the remote, and its key
TrackedBranch(e) == IF e.type = "dict" /\ ~Falsy(e.branch) THEN e.branch ELSE remote_default
TrackedKey(e) ==
    IF e.type = "str"
    THEN RepoKey(Split(e.value)[1], Split(e.value)[2], TrackedBranch(e))
    ELSE RepoKey(e.owner, e.repo, TrackedBranch(e))

\* C20: once the loop is started, the remote has stopped changing and the
\* remote calls and saves have stopped failing, the persisted document comes
\* to hold, for every well-formed configured ref, the tip of its branch under
\* its key, and keeps holding it.
C20_EventualConvergence ==
    <>[](pc[Loop] # "unstarted"
           => \A i \in 1..Len(repositories) :
                WellFormedRef(repositories[i])
                  => Persisted(file, TrackedKey(repositories[i]))
                       = Commit(remote_tip[TrackedBranch(repositories[i])]))

====
